---- MODULE Spec2Model ----
(***************************************************************************)
(* Model of the order-assistant tools of aws-strands-mcp-workshp:          *)
(*   data_preprocess  (task extraction, model path + deterministic         *)
(*                     fallback simulate_llm_response),                    *)
(*   rule_query       (query_rule and RuleQueryService.rule_query_workflow)*)
(*   kit_address_check (check_address),                                    *)
(* and of the retrying lookups they are built on.                          *)
(*                                                                         *)
(* Text is modelled as a sequence of atoms.  An atom is a piece of text    *)
(* that the code's regular expressions and substring tests treat as a      *)
(* unit: a keyword, a punctuation class, or a run of alphanumerics.        *)
(***************************************************************************)
EXTENDS Integers, Sequences, FiniteSets, TLC

VARIABLES
    input_query,        \* data_preprocess / simulate_llm_response: the query
    order_ids,          \* simulate_llm_response: list(set(order_ids))
    purposes,           \* simulate_llm_response: the purpose list
    fb_pc,              \* simulate_task_extraction: "idle" | "start" | "done"
    fb_result,          \* value returned by simulate_llm_response
    fb_prev,            \* value returned by the call before, same query
    fb_process,         \* the server process that serves the calls (1, 2)
    lk_name,            \* the retrying lookup that runs
    lk_attempt,         \* its loop variable attempt (0, 1, 2)
    lk_pc,              \* "idle" | "running" | "returned" | "raised"
    lk_ret,             \* the dict it returned
    lk_exc,             \* the exception that left it
    lk_log,             \* outcome of each requests.get it made, in order
    dp_pc,              \* data_preprocess: "idle" | "get_categories" | "extract" | "done"
    categories,         \* categories_response: "unset" | "none" | "empty" | "ok"
    llm_outcome,        \* how call_siliconflow_deepseek ended
    response_content,   \* the text it returned (a sequence of response atoms)
    dp_exc,             \* exception that left extract_tasks_with_deepseek
    dp_path,            \* what produced the result: "model" | "fallback" | "error"
    dp_result,          \* value returned by data_preprocess
    dp_log,             \* the requests data_preprocess made, in order, with outcome
    rq_impl,            \* "query_rule" | "rule_query_workflow" | "none"
    rq_pc,              \* CHECK_ORDER, FETCH_RULES, FILTER, then a terminal
    rq_order_status,    \* order_status_response / order_status
    rq_rules,           \* rule_response["body"] / matched_rules
    rq_calls,           \* the steps entered so far: "order_status", "rule", "filter"
    rq_llm,             \* how the text-understanding call of the filter step ended
    rq_result,          \* value returned by query_rule / rule_query_workflow
    input_address,      \* check_address: the new address
    ac_pc,              \* check_address: "idle" | "GET_ADDRESS" | "COMPARE" | "done"
    ac_calls,           \* the steps entered so far: "address", "llm", "fallback"
    ac_llm,             \* how the text-understanding call of the comparison ended
    ac_path,            \* what produced the result: "lookup_error" | "model" | "fallback" | "exception"
    ac_result,          \* value returned by check_address
    original_address,   \* compare_addresses_with_llm: the candidate address extracted
    reqs                \* the requests served concurrently, each with its own locals

fbVars == <<input_query, order_ids, purposes, fb_pc, fb_result, fb_prev, fb_process>>

lkVars == <<lk_name, lk_attempt, lk_pc, lk_ret, lk_exc, lk_log>>

dpVars == <<dp_pc, categories, llm_outcome, response_content, dp_exc, dp_path, dp_result, dp_log>>

rqVars == <<rq_impl, rq_pc, rq_order_status, rq_rules, rq_calls, rq_llm, rq_result>>

acVars == <<input_address, ac_pc, ac_calls, ac_llm, ac_path, ac_result, original_address>>

vars == <<fbVars, lkVars, dpVars, rqVars, acVars, reqs>>

(***************************************************************************)
(* Bounds of the model.                                                    *)
(***************************************************************************)
MaxPhrases == 4

(***************************************************************************)
(* Query text.                                                             *)
(*   "OD"    the two characters 订单                                        *)
(*   "HAO"   the character 号                                               *)
(*   "COLON" one of the characters ： and :                                 *)
(*   "SP"    one whitespace character                                      *)
(*   "a","b" one alphanumeric character each                               *)
(*   "K"     a block of MinOrderIdLen - 1 alphanumeric characters          *)
(*   the seven intent keywords, written in pinyin                          *)
(***************************************************************************)
MinOrderIdLen == 10

AlnumAtoms == {"a", "b", "K"}

AtomLen(c) == IF c = "K" THEN MinOrderIdLen - 1 ELSE 1

QueryWords == {"chaxun", "chakan", "zhuangtai"}
CancelWords == {"quxiao", "tuiding"}
ModifyWords == {"xiugai", "genggai"}

Phrases ==
    { <<"OD", "HAO", "COLON", "SP", "a">>,
      <<"OD", "b">>,
      <<"SP", "K", "a">>,
      <<"K">>,
      <<"chaxun">>,
      <<"zhuangtai">>,
      <<"quxiao">>,
      <<"xiugai">>,
      <<"tuiding", "genggai">> }

RECURSIVE Flatten(_)
Flatten(ps) == IF ps = <<>> THEN <<>> ELSE Head(ps) \o Flatten(Tail(ps))

PhraseSeqs(n) == UNION { [1..k -> Phrases] : k \in 0..n }

Queries == { Flatten(ps) : ps \in PhraseSeqs(MaxPhrases) }

(***************************************************************************)
(* Regular expressions of simulate_llm_response, on atom sequences.        *)
(* A match is <<first, last>>, the span of group 1; NoMatch otherwise.     *)
(***************************************************************************)
NoMatch == <<0, 0>>

IsAlnum(q, i) == i \in 1..Len(q) /\ q[i] \in AlnumAtoms

IsAtom(q, i, c) == i \in 1..Len(q) /\ q[i] = c

\* last position of the longest alphanumeric run starting at i (i - 1: none)
RECURSIVE RunEnd(_, _)
RunEnd(q, i) == IF IsAlnum(q, i) THEN RunEnd(q, i + 1) ELSE i - 1

\* \s* : first position at or after i that holds no whitespace
RECURSIVE SkipSpace(_, _)
SkipSpace(q, i) == IF IsAtom(q, i, "SP") THEN SkipSpace(q, i + 1) ELSE i

\* number of characters of a text
RECURSIVE TextLen(_)
TextLen(s) == IF s = <<>> THEN 0 ELSE AtomLen(Head(s)) + TextLen(Tail(s))

\* r'订单号?\s*[：:]\s*([A-Za-z0-9]+)' tried at position i
MatchColon(q, i) ==
    IF ~IsAtom(q, i, "OD") THEN NoMatch
    ELSE LET j == IF IsAtom(q, i + 1, "HAO") THEN i + 2 ELSE i + 1
             c == SkipSpace(q, j)
             g == SkipSpace(q, c + 1)
         IN  IF IsAtom(q, c, "COLON") /\ IsAlnum(q, g)
             THEN <<g, RunEnd(q, g)>>
             ELSE NoMatch

\* r'订单\s*([A-Za-z0-9]+)' tried at position i
MatchPlain(q, i) ==
    IF ~IsAtom(q, i, "OD") THEN NoMatch
    ELSE LET g == SkipSpace(q, i + 1)
         IN  IF IsAlnum(q, g) THEN <<g, RunEnd(q, g)>> ELSE NoMatch

\* r'([A-Za-z0-9]{10,})' tried at position i
MatchLong(q, i) ==
    IF IsAlnum(q, i) /\ TextLen(SubSeq(q, i, RunEnd(q, i))) >= MinOrderIdLen
    THEN <<i, RunEnd(q, i)>>
    ELSE NoMatch

order_patterns == <<"colon", "plain", "long">>

Match(p, q, i) ==
    CASE p = "colon" -> MatchColon(q, i)
      [] p = "plain" -> MatchPlain(q, i)
      [] p = "long"  -> MatchLong(q, i)

\* re.findall(pattern, input_query) from position i on: the group of each
\* match, left to right, matches not overlapping
RECURSIVE FindAll(_, _, _)
FindAll(p, q, i) ==
    IF i > Len(q) THEN <<>>
    ELSE LET m == Match(p, q, i)
         IN  IF m = NoMatch
             THEN FindAll(p, q, i + 1)
             ELSE <<SubSeq(q, m[1], m[2])>> \o FindAll(p, q, m[2] + 1)

\* the loop over order_patterns: order_ids.extend(matches)
RECURSIVE ExtendMatches(_, _)
ExtendMatches(ps, q) ==
    IF ps = <<>> THEN <<>>
    ELSE FindAll(Head(ps), q, 1) \o ExtendMatches(Tail(ps), q)

Range(s) == { s[i] : i \in 1..Len(s) }

\* set(order_ids)
OrderIdSet(q) == Range(ExtendMatches(order_patterns, q))

\* list(set(...)): the iteration order of a set of strings is not fixed by
\* the language, every order of the distinct elements can come out
ListOfSet(S) ==
    { s \in [1..Cardinality(S) -> S] : \A i, j \in 1..Cardinality(S) : s[i] = s[j] => i = j }

(***************************************************************************)
(* Intent keywords of simulate_llm_response.                               *)
(***************************************************************************)
\* any(word in input_query for word in words)
ContainsAny(q, words) == \E i \in 1..Len(q) : q[i] \in words

DefaultPurposes == <<"query order status">>

\* mutant of PurposesOf: the keyword of a family found twice counts twice
PurposesPerKeyword(q) ==
    LET found == (IF ContainsAny(q, {"chaxun", "chakan"}) THEN <<"query order status">> ELSE <<>>)
                 \o (IF ContainsAny(q, {"zhuangtai"}) THEN <<"query order status">> ELSE <<>>)
                 \o (IF ContainsAny(q, CancelWords) THEN <<"cancel order">> ELSE <<>>)
                 \o (IF ContainsAny(q, ModifyWords) THEN <<"modify order">> ELSE <<>>)
    IN  IF found = <<>> THEN DefaultPurposes ELSE found

PurposesOf(q) ==
    LET found == (IF ContainsAny(q, QueryWords) THEN <<"query order status">> ELSE <<>>)
                 \o (IF ContainsAny(q, CancelWords) THEN <<"cancel order">> ELSE <<>>)
                 \o (IF ContainsAny(q, ModifyWords) THEN <<"modify order">> ELSE <<>>)
    IN  IF found = <<>> THEN DefaultPurposes ELSE found

(***************************************************************************)
(* Results.  A Python dict is a function whose keys are <<name, index>>:   *)
(* "task_2" is <<"task", 2>>, "order_id_2" is <<"order_id", 2>>, and a key *)
(* without a number has index 0.                                           *)
(***************************************************************************)
Key(n) == <<n, 0>>

Slot(i) == <<"task", i>>

Max(x, y) == IF x >= y THEN x ELSE y

\* mutant of TaskCount: counts the order ids only
TaskCountOfIds(ids, ps) == Len(ids)

TaskCount(ids, ps) == Max(Len(ids), Len(ps))

\* mutant of SlotElement: cyclic reuse, list[i % len(list)]
SlotElementCyclic(list, i) == list[((i - 1) % Len(list)) + 1]

\* list[i] if i < len(list) else list[-1]   (i counted from 1 here)
SlotElement(list, i) == IF i <= Len(list) THEN list[i] ELSE list[Len(list)]

TaskRecord(ids, ps, i) ==
    (<<"order_id", i>> :> SlotElement(ids, i)) @@ (<<"purpose", i>> :> SlotElement(ps, i))

\* mutant of NoOrderIdResult: the invalid result also carries a count
NoOrderIdResultWithCount == (Key("valid_question") :> "no") @@ (Key("task_count") :> 0)

NoOrderIdResult == (Key("valid_question") :> "no")

SingleTaskResult(ids, ps) ==
    (Key("valid_question") :> "yes") @@ (Key("multi-task") :> "no")
    @@ (Key("task_count") :> 1)
    @@ (Key("tasks") :> ((<<"order_id", 1>> :> ids[1]) @@ (<<"purpose", 1>> :> ps[1])))

\* mutant of MultiTaskResult: slots numbered from 0 (task_{i} for task_{i+1})
MultiTaskResultFromZero(ids, ps) ==
    LET k == TaskCount(ids, ps)
    IN  (Key("valid_question") :> "yes") @@ (Key("multi-task") :> "yes")
        @@ (Key("task_count") :> k)
        @@ [s \in { Slot(i) : i \in 0..(k - 1) } |-> TaskRecord(ids, ps, s[2] + 1)]

MultiTaskResult(ids, ps) ==
    LET k == TaskCount(ids, ps)
    IN  (Key("valid_question") :> "yes") @@ (Key("multi-task") :> "yes")
        @@ (Key("task_count") :> k)
        @@ [s \in { Slot(i) : i \in 1..k } |-> TaskRecord(ids, ps, s[2])]

\* simulate_llm_response once order_ids = list(set(order_ids)) is ids
FallbackResult(q, ids) ==
    IF ids = <<>> THEN NoOrderIdResult
    ELSE IF TaskCount(ids, PurposesOf(q)) = 1
         THEN SingleTaskResult(ids, PurposesOf(q))
         ELSE MultiTaskResult(ids, PurposesOf(q))

(***************************************************************************)
(* The retrying lookups: get_order_status and get_matched_rule             *)
(* (rule_query.py), get_original_address (kit_address_check.py).           *)
(*                                                                         *)
(* One requests.get either fails at transport level (it raises a           *)
(* requests RequestException) or receives a response.  A response body is  *)
(* [json, obj, text]: obj is the decoded object when the content type is   *)
(* application/json, text the raw text otherwise.                          *)
(***************************************************************************)
max_retries == 3

Lookups == {"get_order_status", "get_matched_rule", "get_original_address"}

StatusCodes == {200, 201, 404, 500, 503}

EmptyObj == [k \in {} |-> ""]

OrderStatuses == {"pending", "confirmed", "shipped"}

OrderStatusObjects == { ("status" :> st) : st \in OrderStatuses }

RuleKeys == {"cancel_rule", "modify_rule", "query_rule", "refund_rule"}

RuleSets == { [k \in S |-> <<"definition", k>>] : S \in SUBSET RuleKeys }

\* bodies of the address-on-file service; an address is a sequence of the
\* characters "1", "M", "m", "SP" (a space) and "TAB"
AddressKeys ==
    {"address", "shipping_address", "delivery_address", "addr", "location", "id"}

AddressValue(f) ==
    CASE f = "address"          -> <<"1", "SP", "M">>
      [] f = "shipping_address" -> <<"M">>
      [] f = "delivery_address" -> <<"m", "1">>
      [] f = "addr"             -> <<"TAB">>
      [] f = "location"         -> <<"1", "M">>
      [] f = "id"               -> <<"1">>

AddressObjects == { [f \in S |-> AddressValue(f)] : S \in SUBSET AddressKeys }

ErrorTexts == {<<"<html>error</html>">>}

\* bodies that are no JSON: an error page, and for the address service an
\* address as plain text
TextsOf(name) ==
    IF name = "get_original_address" THEN ErrorTexts \cup {<<"1", "m">>} ELSE ErrorTexts

ObjectsOf(name) ==
    CASE name = "get_order_status"     -> OrderStatusObjects
      [] name = "get_matched_rule"     -> RuleSets
      [] name = "get_original_address" -> AddressObjects

TransportFailure ==
    [kind |-> "failure", status_code |-> 0, json |-> FALSE, obj |-> EmptyObj, text |-> <<>>]

Responses(name) ==
    { [kind |-> "response", status_code |-> c, json |-> TRUE, obj |-> o, text |-> <<>>] :
          c \in StatusCodes, o \in ObjectsOf(name) }
    \cup
    { [kind |-> "response", status_code |-> c, json |-> FALSE, obj |-> EmptyObj, text |-> t] :
          c \in StatusCodes, t \in TextsOf(name) }

Outcomes(name) == {TransportFailure} \cup Responses(name)

\* response.json() if the content type starts with application/json,
\* else response.text
Body(o) ==
    IF o.json THEN [json |-> TRUE, obj |-> o.obj, text |-> <<>>]
    ELSE [json |-> FALSE, obj |-> EmptyObj, text |-> o.text]

NoBody == [json |-> FALSE, obj |-> EmptyObj, text |-> <<>>]

NoReturn == [status_code |-> 0, body |-> NoBody, success |-> FALSE]

\* the dict a lookup returns for a response; only get_original_address
\* fills the key success
Returned(name, o) ==
    [status_code |-> o.status_code,
     body |-> Body(o),
     success |-> (name = "get_original_address" /\ o.status_code = 200)]

\* mutant of Received: a 5xx response is handled like a transport failure
ReceivedBelow500(o) == o.kind = "response" /\ o.status_code < 500

\* the try block ends in return: requests.get raised nothing
Received(o) == o.kind = "response"

\* rule_query.py has no "import time", kit_address_check.py has
TimeImported(name) == name = "get_original_address"

\* get_original_address is a plain function: the name self is not bound
SelfBound == FALSE

\* the except block of the retry loop, entered with loop variable attempt:
\*   "RequestException"  the bare raise of the last attempt
\*   "NameError"         evaluating an unbound name (time, self)
\*   "retry"             time.sleep returned, the loop goes on
ExceptBranch(name, attempt) ==
    IF name = "get_original_address"
    THEN IF ~SelfBound THEN "NameError"
         ELSE IF attempt = max_retries - 1 THEN "RequestException" ELSE "retry"
    ELSE IF attempt = 2 THEN "RequestException"
         ELSE IF ~TimeImported(name) THEN "NameError" ELSE "retry"

LookupIdle ==
    /\ lk_name = "none"
    /\ lk_attempt = 0
    /\ lk_pc = "idle"
    /\ lk_ret = NoReturn
    /\ lk_exc = "none"
    /\ lk_log = <<>>

ExtractIdle ==
    /\ dp_pc = "idle"
    /\ categories = "unset"
    /\ llm_outcome = "not_called"
    /\ response_content = <<>>
    /\ dp_exc = "none"
    /\ dp_path = "none"
    /\ dp_result = NoOrderIdResult
    /\ dp_log = <<>>

ResolveIdle ==
    /\ rq_impl = "none"
    /\ rq_pc = "idle"
    /\ rq_order_status = NoReturn
    /\ rq_rules = EmptyObj
    /\ rq_calls = <<>>
    /\ rq_llm = "not_called"
    /\ rq_result = EmptyObj

\* original_address before line 107 of kit_address_check.py has run
Unset == <<"UNSET">>

ReconcileIdle ==
    /\ input_address = <<>>
    /\ ac_pc = "idle"
    /\ ac_calls = <<>>
    /\ ac_llm = "not_called"
    /\ ac_path = "none"
    /\ ac_result = EmptyObj
    /\ original_address = Unset

\* one pass of "for attempt in range(3)": requests.get and what follows it
Attempt ==
    /\ lk_pc = "running"
    /\ \E o \in Outcomes(lk_name) :
          /\ lk_log' = Append(lk_log, o)
          /\ IF Received(o)
             THEN /\ lk_pc' = "returned"
                  /\ lk_ret' = Returned(lk_name, o)
                  /\ UNCHANGED <<lk_attempt, lk_exc>>
             ELSE IF ExceptBranch(lk_name, lk_attempt) = "retry"
                  THEN /\ lk_attempt' = lk_attempt + 1
                       /\ UNCHANGED <<lk_pc, lk_ret, lk_exc>>
                  ELSE /\ lk_pc' = "raised"
                       /\ lk_exc' = ExceptBranch(lk_name, lk_attempt)
                       /\ UNCHANGED <<lk_attempt, lk_ret>>
    /\ UNCHANGED lk_name

(***************************************************************************)
(* Text returned by the text-understanding service, as response atoms:     *)
(*   "WS"          whitespace                                              *)
(*   "FENCE_JSON"  the seven characters ```json                            *)
(*   "FENCE"       the three characters ```                                *)
(*   "X"           text that is no JSON                                    *)
(*   "J_multi", "J_badcount"   one JSON document each                      *)
(***************************************************************************)
MaxRespLen == 3

MaxExtractPhrases == 1

RespAtoms == {"WS", "FENCE_JSON", "FENCE", "X", "J_multi", "J_badcount"}

ResponseTexts == UNION { [1..n -> RespAtoms] : n \in 0..MaxRespLen }

ExtractQueries == { Flatten(ps) : ps \in PhraseSeqs(MaxExtractPhrases) }

\* the object each JSON document decodes to
JsonDocument(a) ==
    CASE a = "J_multi" ->
            MultiTaskResult(<< <<"a">>, <<"b">> >>, <<"cancel order">>)
      [] a = "J_badcount" ->
            (Key("valid_question") :> "yes") @@ (Key("multi-task") :> "yes")
            @@ (Key("task_count") :> 3)
            @@ (Slot(1) :> TaskRecord(<< <<"a">> >>, <<"cancel order">>, 1))

JsonAtoms == {"J_multi", "J_badcount"}

\* str.strip()
RECURSIVE LStrip(_)
LStrip(t) == IF t # <<>> /\ Head(t) = "WS" THEN LStrip(Tail(t)) ELSE t

RECURSIVE RStrip(_)
RStrip(t) ==
    IF t # <<>> /\ t[Len(t)] = "WS" THEN RStrip(SubSeq(t, 1, Len(t) - 1)) ELSE t

Strip(t) == RStrip(LStrip(t))

\* the cleaning of extract_tasks_with_deepseek: strip, drop a leading
\* ```json, drop a trailing ```, strip
CleanedContent(t) ==
    LET s1 == Strip(t)
        s2 == IF s1 # <<>> /\ Head(s1) = "FENCE_JSON" THEN Tail(s1) ELSE s1
        s3 == IF s2 # <<>> /\ s2[Len(s2)] = "FENCE" THEN SubSeq(s2, 1, Len(s2) - 1) ELSE s2
    IN  Strip(s3)

\* json.loads succeeds on exactly one JSON document
JsonLoads(t) == Len(t) = 1 /\ t[1] \in JsonAtoms

ErrorResult(msg) == (Key("error") :> msg)

(***************************************************************************)
(* data_preprocess: get_categories, then extract_tasks_with_deepseek.      *)
(***************************************************************************)
InitExtract ==
    /\ input_query \in ExtractQueries
    /\ order_ids = <<>>
    /\ purposes = <<>>
    /\ fb_pc = "idle"
    /\ fb_result = NoOrderIdResult
    /\ fb_prev = NoOrderIdResult
    /\ fb_process = 1
    /\ reqs = <<>>
    /\ ReconcileIdle
    /\ LookupIdle
    /\ ResolveIdle
    /\ dp_pc = "get_categories"
    /\ categories = "unset"
    /\ llm_outcome = "not_called"
    /\ response_content = <<>>
    /\ dp_exc = "none"
    /\ dp_path = "none"
    /\ dp_result = NoOrderIdResult
    /\ dp_log = <<>>

CategoryObjects == {EmptyObj, ("categories" :> "order categories")}

\* what the one requests.get of get_categories can meet
CategoryOutcomes ==
    {TransportFailure} \cup
    { [kind |-> "response", status_code |-> c, json |-> TRUE, obj |-> o, text |-> <<>>] :
          c \in StatusCodes, o \in CategoryObjects }

\* mutant of CategoriesOf: no raise_for_status, every body is decoded
CategoriesOfAnyStatus(o) ==
    IF o.kind = "failure" THEN "none"
    ELSE IF o.obj = EmptyObj THEN "empty" ELSE "ok"

\* get_categories: None ("none") when requests.get or raise_for_status
\* raises, the decoded mapping otherwise ("empty" for {}, "ok")
CategoriesOf(o) ==
    IF o.kind = "failure" \/ o.status_code >= 400 THEN "none"
    ELSE IF o.obj = EmptyObj THEN "empty" ELSE "ok"

\* mutant of CategoriesMissing: only None aborts
CategoriesMissingNoneOnly(c) == c = "none"

\* "if not categories_response"
CategoriesMissing(c) == c \in {"none", "empty"}

LogEntry(call, kind, status_code) ==
    [call |-> call, kind |-> kind, status_code |-> status_code]

\* Step 1 of data_preprocess: one requests.get, no retry
get_categories ==
    /\ dp_pc = "get_categories"
    /\ \E o \in CategoryOutcomes :
          /\ categories' = CategoriesOf(o)
          /\ dp_log' = Append(dp_log, LogEntry("get_categories", o.kind, o.status_code))
          /\ IF ~CategoriesMissing(CategoriesOf(o))
             THEN /\ dp_pc' = "extract"
                  /\ UNCHANGED <<dp_path, dp_result>>
             ELSE /\ dp_pc' = "done"
                  /\ dp_path' = "error"
                  /\ dp_result' = ErrorResult("Failed to fetch categories")
    /\ UNCHANGED <<reqs, fbVars, lkVars, rqVars, acVars, llm_outcome, response_content, dp_exc>>

\* the call of simulate_llm_response(input_query) inside the extraction
UseFallback ==
    \E ids \in ListOfSet(OrderIdSet(input_query)) :
        /\ order_ids' = ids
        /\ purposes' = IF ids = <<>> THEN <<>> ELSE PurposesOf(input_query)
        /\ dp_result' = FallbackResult(input_query, ids)
        /\ dp_path' = "fallback"

\* Step 2, SILICONFLOW_API_KEY unset: call_siliconflow_deepseek raises
\* ValueError, extract_tasks_with_deepseek does not catch it, data_preprocess
\* turns it into an error result.
ExtractKeyMissing ==
    /\ dp_pc = "extract"
    /\ llm_outcome' = "no_api_key"
    /\ dp_exc' = "ValueError"
    /\ dp_path' = "error"
    /\ dp_result' = ErrorResult("Task extraction failed")
    /\ dp_pc' = "done"
    /\ UNCHANGED <<reqs, fbVars, lkVars, rqVars, acVars, categories, response_content, dp_log>>

\* Step 2, the request fails (RequestException) or the response holds no
\* choices[0].message.content: call_siliconflow_deepseek returns None.
ExtractCallFails ==
    /\ dp_pc = "extract"
    /\ llm_outcome' \in {"request_failed", "no_completion"}
    /\ dp_log' = Append(dp_log, LogEntry("call_siliconflow_deepseek",
                     IF llm_outcome' = "request_failed" THEN "failure" ELSE "response",
                     IF llm_outcome' = "request_failed" THEN 0 ELSE 200))
    /\ UseFallback
    /\ dp_pc' = "done"
    /\ UNCHANGED <<reqs, input_query, fb_pc, fb_result, fb_prev, fb_process, lkVars, rqVars, acVars, categories, response_content, dp_exc>>

\* Step 2, the service answers with a text.
ExtractResponds ==
    /\ dp_pc = "extract"
    /\ llm_outcome' = "content"
    /\ dp_log' = Append(dp_log, LogEntry("call_siliconflow_deepseek", "response", 200))
    /\ \E t \in ResponseTexts :
          /\ response_content' = t
          /\ IF t = <<>> \/ ~JsonLoads(CleanedContent(t))
             THEN UseFallback
             ELSE /\ dp_result' = JsonDocument(CleanedContent(t)[1])
                  /\ dp_path' = "model"
                  /\ UNCHANGED <<order_ids, purposes>>
    /\ dp_pc' = "done"
    /\ UNCHANGED <<reqs, input_query, fb_pc, fb_result, fb_prev, fb_process, lkVars, rqVars, acVars, categories, dp_exc>>

NextExtract ==
    \/ get_categories
    \/ ExtractKeyMissing
    \/ ExtractCallFails
    \/ ExtractResponds

SpecExtract == InitExtract /\ [][NextExtract]_vars

\* the three shapes of an ExtractionResult
WellShaped(r) ==
    LET D == DOMAIN r
    IN  \/ /\ D = {Key("valid_question")}
           /\ r[Key("valid_question")] = "no"
        \/ /\ D = {Key("valid_question"), Key("multi-task"), Key("task_count"), Key("tasks")}
           /\ r[Key("valid_question")] = "yes"
           /\ r[Key("multi-task")] = "no"
           /\ r[Key("task_count")] = 1
        \/ /\ {Key("valid_question"), Key("multi-task"), Key("task_count")} \subseteq D
           /\ r[Key("valid_question")] = "yes"
           /\ r[Key("multi-task")] = "yes"
           /\ r[Key("task_count")] > 1
           /\ D = {Key("valid_question"), Key("multi-task"), Key("task_count")}
                  \cup { Slot(i) : i \in 1..r[Key("task_count")] }

\* C1: once the extraction has been entered, whatever the outcome of the
\* text-understanding call, the caller gets a result of the model path or of
\* the fallback: no error result, and no exception leaves the extraction.
C1_NeverFailsOutward ==
    (dp_pc = "done" /\ llm_outcome # "not_called") =>
        /\ dp_path \in {"model", "fallback"}
        /\ Key("error") \notin DOMAIN dp_result
        /\ dp_exc = "none"

\* C10: every result returned from the model path has one of the three
\* shapes of an ExtractionResult.
C10_ModelPathShape ==
    (dp_pc = "done" /\ dp_path = "model") => WellShaped(dp_result)

CallsOf(call) == SelectSeq(dp_log, LAMBDA c : c.call = call)

FallbackNotRun == order_ids = <<>> /\ purposes = <<>> /\ dp_path # "fallback"

\* C21: when the taxonomy lookup fails (transport failure or an error
\* status), data_preprocess returns an error result and calls neither the
\* text-understanding service nor the fallback.
C21_TaxonomyFailureAborts ==
    \A i \in 1..Len(dp_log) :
        (dp_log[i].call = "get_categories"
           /\ (dp_log[i].kind = "failure" \/ dp_log[i].status_code \notin 200..299)) =>
            /\ dp_pc = "done"
            /\ dp_path = "error"
            /\ DOMAIN dp_result = {Key("error")}
            /\ llm_outcome = "not_called"
            /\ CallsOf("call_siliconflow_deepseek") = <<>>
            /\ FallbackNotRun

C21_Witness ==
    /\ dp_pc = "done"
    /\ categories = "none"
    /\ dp_log = <<LogEntry("get_categories", "response", 503)>>
    /\ OrderIdSet(input_query) # {}

\* C22: the taxonomy lookup and the text-understanding call are each made
\* again after a transport failure: a call counts as failed only after 3
\* attempts, and no call is attempted more than 3 times.
C22_EveryCallRetried ==
    \A call \in {"get_categories", "call_siliconflow_deepseek"} :
        /\ Len(CallsOf(call)) <= 3
        /\ (dp_pc = "done" /\ CallsOf(call) # <<>>
              /\ CallsOf(call)[Len(CallsOf(call))].kind = "failure") =>
                 Len(CallsOf(call)) = 3

\* C28: a taxonomy lookup that succeeds with an empty mapping ends like a
\* failed one: the error "Failed to fetch categories", no call of the
\* text-understanding service, no fallback, also when the query holds an
\* order id.
C28_EmptyTaxonomyAborts ==
    categories = "empty" =>
        /\ dp_pc = "done"
        /\ dp_result = ErrorResult("Failed to fetch categories")
        /\ llm_outcome = "not_called"
        /\ CallsOf("call_siliconflow_deepseek") = <<>>
        /\ FallbackNotRun

C28_Witness ==
    /\ dp_pc = "done"
    /\ categories = "empty"
    /\ dp_log = <<LogEntry("get_categories", "response", 200)>>
    /\ OrderIdSet(input_query) # {}
    /\ dp_result = ErrorResult("Failed to fetch categories")

(***************************************************************************)
(* resolve: query_rule (rule_query.py) and                                 *)
(* RuleQueryService.rule_query_workflow (mcp_rule_query_server.py).        *)
(* The key "规则" of the results is written "guize".  A result that is a    *)
(* string and no dict is a function with the single key "<str>".           *)
(* A JSON text is [type, value]: the type of the value json.dumps encoded  *)
(* ("null", "str", "dict") and that value; decoding gives the value back,  *)
(* with its type.                                                          *)
(***************************************************************************)
NotExistText == "order_id is not exist, please check"

Terminals == {"DONE", "REJECTED", "RULE_FAILURE", "ERROR"}

JsonBody(o) == [json |-> TRUE, obj |-> o, text |-> <<>>]

\* mutant of OrderExists: every 2xx status counts as existing
OrderExistsAny2xx(resp) == resp.status_code \in 200..299

\* order_status_response["status_code"] == 200
OrderExists(resp) == resp.status_code = 200

\* mutant of OrderAbsentResult: the absent order is reported as an error
OrderAbsentAsError(impl, resp) == ("error" :> "order not found")

\* the result of the branch "order doesn't exist"
OrderAbsentResult(impl, resp) ==
    IF impl = "query_rule"
    THEN ("success" :> FALSE) @@ ("result" :> NotExistText) @@ ("order_status" :> resp)
    ELSE ("result" :> NotExistText)

FilterTexts == {<<"X">>, <<"J_rules">>, <<"FENCE_JSON", "J_rules", "FENCE">>}

\* the object the JSON document "J_rules" of the service decodes to
FilterDocument(a) ==
    CASE a = "J_rules" -> ("guize" :> ("cancel_rule" :> <<"definition", "cancel_rule">>))

\* which of the words the filter looks for occur in a rule key
KeyContains(k, w) ==
    \/ k = "cancel_rule" /\ w = "cancel"
    \/ k = "modify_rule" /\ w = "modify"
    \/ k = "query_rule" /\ w = "query"

\* RuleQueryService.should_include_rule: every branch returns True
should_include_rule(rule_key, order_info) ==
    IF order_info = EmptyObj THEN TRUE
    ELSE LET order_status == IF "status" \in DOMAIN order_info
                             THEN order_info["status"] ELSE ""
         IN  IF KeyContains(rule_key, "cancel") /\ order_status \in {"pending", "confirmed"}
             THEN TRUE
             ELSE IF KeyContains(rule_key, "modify") /\ order_status \in {"pending"}
                  THEN TRUE
                  ELSE IF KeyContains(rule_key, "query") THEN TRUE
                       ELSE TRUE

json_dumps(type, value) == [type |-> type, value |-> value]

\* RuleQueryService.filter_rules
filter_rules(rules, order_status) ==
    LET order_body == order_status.body.obj
        kept == { k \in DOMAIN rules : should_include_rule(k, order_body) }
    IN  IF rules = EmptyObj
        THEN json_dumps("dict", ("guize" :> "no matched rule found"))
        ELSE json_dumps("dict", ("guize" :> [k \in kept |-> rules[k]]))

\* RuleQueryService.fetch_order_status: one request, no retry; any
\* exception (the request fails, or the body is no JSON) gives status 500
fetch_order_status(o) ==
    IF o.kind = "failure" \/ ~o.json
    THEN [status_code |-> 500, body |-> JsonBody(EmptyObj), success |-> FALSE]
    ELSE [status_code |-> o.status_code,
          body |-> JsonBody(IF o.status_code = 200 THEN o.obj ELSE EmptyObj),
          success |-> FALSE]

\* RuleQueryService.fetch_matched_rules: the decoded body of a 200
\* response, {} otherwise
fetch_matched_rules(o) ==
    IF o.kind = "failure" \/ ~o.json \/ o.status_code # 200 THEN EmptyObj ELSE o.obj

StartLookup(name) ==
    /\ lk_name' = name
    /\ lk_attempt' = 0
    /\ lk_pc' = "running"
    /\ lk_ret' = NoReturn
    /\ lk_exc' = "none"
    /\ lk_log' = <<>>

\* the "except Exception" of query_rule
QueryRuleError(exc) ==
    ("success" :> FALSE) @@ ("error" :> exc)
    @@ ("result" :> "An error occurred while processing the request")

InitResolve ==
    /\ rq_impl \in {"query_rule", "rule_query_workflow"}
    /\ rq_pc = "CHECK_ORDER"
    /\ rq_order_status = NoReturn
    /\ rq_rules = NoBody
    /\ rq_calls = <<"order_status">>
    /\ rq_llm = "not_called"
    /\ rq_result = EmptyObj
    /\ lk_name = IF rq_impl = "query_rule" THEN "get_order_status" ELSE "none"
    /\ lk_attempt = 0
    /\ lk_pc = IF rq_impl = "query_rule" THEN "running" ELSE "idle"
    /\ lk_ret = NoReturn
    /\ lk_exc = "none"
    /\ lk_log = <<>>
    /\ input_query = <<>>
    /\ order_ids = <<>>
    /\ purposes = <<>>
    /\ fb_pc = "idle"
    /\ fb_result = NoOrderIdResult
    /\ fb_prev = NoOrderIdResult
    /\ fb_process = 1
    /\ reqs = <<>>
    /\ ReconcileIdle
    /\ ExtractIdle

\* query_rule, Step 2: get_order_status has ended
QueryRuleCheckOrder ==
    /\ rq_impl = "query_rule"
    /\ rq_pc = "CHECK_ORDER"
    /\ lk_pc \in {"returned", "raised"}
    /\ IF lk_pc = "raised"
       THEN /\ rq_pc' = "ERROR"
            /\ rq_result' = QueryRuleError(lk_exc)
            /\ UNCHANGED <<rq_order_status, rq_calls, lkVars>>
       ELSE /\ rq_order_status' = lk_ret
            /\ IF OrderExists(lk_ret)
               THEN /\ rq_pc' = "FETCH_RULES"
                    /\ rq_calls' = Append(rq_calls, "rule")
                    /\ StartLookup("get_matched_rule")
                    /\ UNCHANGED rq_result
               ELSE /\ rq_pc' = "REJECTED"
                    /\ rq_result' = OrderAbsentResult(rq_impl, lk_ret)
                    /\ UNCHANGED <<rq_calls, lkVars>>
    /\ UNCHANGED <<reqs, rq_impl, rq_rules, rq_llm, fbVars, dpVars, acVars>>

\* query_rule, Step 3: get_matched_rule has ended
QueryRuleFetchRules ==
    /\ rq_impl = "query_rule"
    /\ rq_pc = "FETCH_RULES"
    /\ lk_pc \in {"returned", "raised"}
    /\ IF lk_pc = "raised"
       THEN /\ rq_pc' = "ERROR"
            /\ rq_result' = QueryRuleError(lk_exc)
            /\ UNCHANGED <<rq_rules, rq_calls>>
       ELSE /\ rq_pc' = "FILTER"
            /\ rq_rules' = lk_ret.body
            /\ rq_calls' = Append(rq_calls, "filter")
            /\ UNCHANGED rq_result
    /\ UNCHANGED <<reqs, rq_impl, rq_order_status, rq_llm, lkVars, fbVars, dpVars, acVars>>

\* query_rule, Step 4: filter_rule_with_llm returns
\* json.dumps(response_content); a missing API key raises ValueError
QueryRuleFilter ==
    /\ rq_impl = "query_rule"
    /\ rq_pc = "FILTER"
    /\ \/ /\ rq_llm' = "no_api_key"
          /\ rq_pc' = "ERROR"
          /\ rq_result' = QueryRuleError("ValueError")
       \/ /\ rq_llm' \in {"request_failed", "no_completion"}
          /\ rq_pc' = "DONE"
          /\ rq_result' = ("<str>" :> json_dumps("null", <<>>))
       \/ /\ rq_llm' = "content"
          /\ rq_pc' = "DONE"
          /\ \E t \in FilterTexts : rq_result' = ("<str>" :> json_dumps("str", t))
    /\ UNCHANGED <<reqs, rq_impl, rq_order_status, rq_rules, rq_calls, lkVars, fbVars, dpVars, acVars>>

\* rule_query_workflow, Steps 1 and 2
WorkflowCheckOrder ==
    /\ rq_impl = "rule_query_workflow"
    /\ rq_pc = "CHECK_ORDER"
    /\ \E o \in Outcomes("get_order_status") :
          /\ lk_log' = Append(lk_log, o)
          /\ rq_order_status' = fetch_order_status(o)
          /\ IF OrderExists(fetch_order_status(o))
             THEN /\ rq_pc' = "FETCH_RULES"
                  /\ rq_calls' = Append(rq_calls, "rule")
                  /\ UNCHANGED rq_result
             ELSE /\ rq_pc' = "REJECTED"
                  /\ rq_result' = OrderAbsentResult(rq_impl, fetch_order_status(o))
                  /\ UNCHANGED rq_calls
    /\ UNCHANGED <<reqs, rq_impl, rq_rules, rq_llm, lk_name, lk_attempt, lk_pc, lk_ret, lk_exc,
                   fbVars, dpVars, acVars>>

\* rule_query_workflow: fetch_matched_rules and the test "if matched_rules"
WorkflowFetchRules ==
    /\ rq_impl = "rule_query_workflow"
    /\ rq_pc = "FETCH_RULES"
    /\ \E o \in Outcomes("get_matched_rule") :
          /\ lk_log' = Append(lk_log, o)
          /\ rq_rules' = JsonBody(fetch_matched_rules(o))
          /\ IF fetch_matched_rules(o) # EmptyObj
             THEN /\ rq_pc' = "FILTER"
                  /\ rq_calls' = Append(rq_calls, "filter")
                  /\ UNCHANGED rq_result
             ELSE /\ rq_pc' = "RULE_FAILURE"
                  /\ rq_result' = ("error" :> "Failed to get matched rules")
                  /\ UNCHANGED rq_calls
    /\ UNCHANGED <<reqs, rq_impl, rq_order_status, rq_llm, lk_name, lk_attempt, lk_pc, lk_ret,
                   lk_exc, fbVars, dpVars, acVars>>

\* mutant of WorkflowFilter: the filter step goes back to the rule fetch
WorkflowFilterRevisits ==
    /\ rq_impl = "rule_query_workflow"
    /\ rq_pc = "FILTER"
    /\ rq_pc' = "FETCH_RULES"
    /\ UNCHANGED <<reqs, rq_impl, rq_order_status, rq_rules, rq_calls, rq_llm, rq_result,
                   lkVars, fbVars, dpVars, acVars>>

\* rule_query_workflow, Step 3: filter_rules
WorkflowFilter ==
    /\ rq_impl = "rule_query_workflow"
    /\ rq_pc = "FILTER"
    /\ rq_pc' = "DONE"
    /\ rq_result' = ("text" :> filter_rules(rq_rules.obj, rq_order_status))
    /\ UNCHANGED <<reqs, rq_impl, rq_order_status, rq_rules, rq_calls, rq_llm, lkVars, fbVars, dpVars, acVars>>

NextResolve ==
    \/ (Attempt /\ UNCHANGED <<reqs, fbVars, dpVars, acVars, rqVars>>)
    \/ QueryRuleCheckOrder
    \/ QueryRuleFetchRules
    \/ QueryRuleFilter
    \/ WorkflowCheckOrder
    \/ WorkflowFetchRules
    \/ WorkflowFilter

SpecResolve == InitResolve /\ [][NextResolve]_vars

\* C2: a rule fetch, and the filter step after it, are entered only after the
\* order-status lookup has returned status code 200; the order-status step is
\* always the first one.
C2_OrderExistenceGate ==
    /\ rq_calls # <<>> => rq_calls[1] = "order_status"
    /\ \A i \in 1..Len(rq_calls) :
          rq_calls[i] \in {"rule", "filter"} => rq_order_status.status_code = 200
    /\ lk_name = "get_matched_rule" => rq_order_status.status_code = 200
    /\ rq_pc \in {"FETCH_RULES", "FILTER", "DONE", "RULE_FAILURE"} =>
          rq_order_status.status_code = 200

C2_Witness ==
    /\ Len(rq_calls) >= 2
    /\ rq_calls[2] = "rule"
    /\ rq_order_status.status_code = 200

\* C3: when the order-status lookup yields a status code other than 200,
\* resolve ends REJECTED with the text "order_id is not exist, please check";
\* with status code 200 it never returns that text.
C3_RejectedIffNot200 ==
    (rq_pc \in Terminals /\ rq_order_status # NoReturn) =>
        /\ rq_order_status.status_code # 200 =>
              /\ rq_pc = "REJECTED"
              /\ "result" \in DOMAIN rq_result
              /\ rq_result["result"] = NotExistText
        /\ rq_order_status.status_code = 200 =>
              /\ rq_pc # "REJECTED"
              /\ "result" \in DOMAIN rq_result => rq_result["result"] # NotExistText

C3_Witness ==
    /\ rq_pc = "REJECTED"
    /\ rq_order_status.status_code = 404
    /\ "result" \in DOMAIN rq_result
    /\ rq_result["result"] = NotExistText
    /\ rq_calls = <<"order_status">>

\* every request has a timeout and every loop a bound: a step that can be
\* taken is taken
SpecResolveFair == SpecResolve /\ WF_vars(NextResolve)

\* the rule lookup of resolve has ended with an empty RuleSet, a non-200
\* response or a transport failure
RuleLookupFailed ==
    /\ rq_calls # <<>>
    /\ "rule" \in Range(rq_calls)
    /\ rq_pc # "FETCH_RULES"
    /\ IF rq_impl = "query_rule"
       THEN /\ lk_name = "get_matched_rule"
            /\ \/ lk_pc = "raised"
               \/ /\ lk_pc = "returned"
                  /\ \/ lk_ret.status_code # 200
                     \/ ~lk_ret.body.json
                     \/ lk_ret.body.obj = EmptyObj
       ELSE rq_rules.obj = EmptyObj

\* C13: when the order exists and the rule lookup gives an empty RuleSet or
\* fails, resolve ends in the terminal {error: "Failed to get matched rules"},
\* the filter step is not run, and the result is neither the order-absent
\* result nor a filtered rule set.
C13_RuleFailureTerminal ==
    (rq_pc \in Terminals /\ rq_order_status.status_code = 200 /\ RuleLookupFailed) =>
        /\ rq_pc = "RULE_FAILURE"
        /\ "filter" \notin Range(rq_calls)
        /\ DOMAIN rq_result = {"error"}
        /\ rq_result["error"] = "Failed to get matched rules"

\* the JSON text a DONE result carries
ReturnedText(r) == IF "text" \in DOMAIN r THEN r["text"] ELSE r["<str>"]

WrappedInGuize(r) ==
    /\ ReturnedText(r).type = "dict"
    /\ DOMAIN ReturnedText(r).value = {"guize"}

\* C14: in a result of the deterministic rule filter, a rule whose key
\* contains "cancel" is included only when the order status is pending or
\* confirmed, a rule whose key contains "modify" only when it is pending; a
\* rule whose key contains "query", or none of the three words, is included.
C14_DeterministicFilter ==
    (rq_pc = "DONE" /\ rq_impl = "rule_query_workflow") =>
        LET st == rq_order_status.body.obj["status"]
            kept == DOMAIN rq_result["text"].value["guize"]
        IN  \A k \in DOMAIN rq_rules.obj :
               /\ (KeyContains(k, "cancel") /\ k \in kept) => st \in {"pending", "confirmed"}
               /\ (KeyContains(k, "modify") /\ k \in kept) => st \in {"pending"}
               /\ KeyContains(k, "query") => k \in kept
               /\ (~KeyContains(k, "cancel") /\ ~KeyContains(k, "modify")
                      /\ ~KeyContains(k, "query")) => k \in kept

\* C15: every result of the DONE path is an object with the single
\* top-level key "规则", whichever implementation produced it and whatever
\* the text-understanding service returned.
C15_WrappedInGuize ==
    rq_pc = "DONE" => WrappedInGuize(rq_result)

\* the text-understanding call of the filter step failed, or its text is
\* no JSON
FilterCallFailed ==
    \/ rq_llm \in {"no_api_key", "request_failed", "no_completion"}
    \/ /\ rq_llm = "content"
       /\ "<str>" \in DOMAIN rq_result
       /\ rq_result["<str>"].type = "str"
       /\ ~(CleanedContent(rq_result["<str>"].value) \in {<<"J_rules">>})

\* C16: when the text-understanding call of the filter step fails or its
\* response cannot be parsed, resolve returns what the deterministic filter
\* computes from the fetched RuleSet and the order status: no null result,
\* no error.
C16_FilterFallback ==
    (rq_pc \in Terminals /\ FilterCallFailed) =>
        /\ rq_pc = "DONE"
        /\ "error" \notin DOMAIN rq_result
        /\ ReturnedText(rq_result).type = "dict"
        /\ ReturnedText(rq_result) = filter_rules(rq_rules.obj, rq_order_status)

\* the order-status lookup of resolve ended without a response
OrderStatusLookupFailed ==
    IF rq_impl = "query_rule"
    THEN lk_name = "get_order_status" /\ lk_pc = "raised"
    ELSE lk_log # <<>> /\ lk_log[1].kind = "failure"

\* C23: when the order-status lookup of resolve cannot be completed because
\* of transport failures, resolve returns a reported error (an error
\* outcome with a message, not the order-absent outcome).
C23_TransportFailureReported ==
    (rq_pc \in Terminals /\ OrderStatusLookupFailed) =>
        /\ rq_pc = "ERROR"
        /\ "error" \in DOMAIN rq_result
        /\ "result" \in DOMAIN rq_result => rq_result["result"] # NotExistText

StateRank(pc) ==
    CASE pc = "CHECK_ORDER" -> 1
      [] pc = "FETCH_RULES" -> 2
      [] pc = "FILTER" -> 3
      [] pc \in Terminals -> 4

\* one step of resolve keeps the order CHECK_ORDER, FETCH_RULES, FILTER,
\* terminal, and a terminal is never left
StepInOrder ==
    /\ rq_pc' # rq_pc =>
          /\ rq_pc \notin Terminals
          /\ StateRank(rq_pc') > StateRank(rq_pc)
          /\ rq_pc' = "FETCH_RULES" => rq_pc = "CHECK_ORDER"
          /\ rq_pc' = "FILTER" => rq_pc = "FETCH_RULES"
    /\ rq_pc \in Terminals => rq_result' = rq_result

\* C25: every run of resolve ends, whatever its external calls give, in one
\* terminal (DONE, REJECTED, RULE_FAILURE, ERROR) that it never leaves; the
\* states are passed in the order CHECK_ORDER, FETCH_RULES, FILTER, none
\* twice, and FILTER only from FETCH_RULES.
C25_ResolveTerminates ==
    /\ <>(rq_pc \in Terminals)
    /\ [][StepInOrder]_vars

C25_Witness ==
    /\ rq_pc = "DONE"
    /\ rq_calls = <<"order_status", "rule", "filter">>
    /\ rq_impl = "query_rule"

\* the rules a DONE result holds under "规则"
RulesOf(r) ==
    IF ReturnedText(r).type = "dict" THEN ReturnedText(r).value["guize"]
    ELSE IF ReturnedText(r).type = "str"
              /\ CleanedContent(ReturnedText(r).value) \in {<<"J_rules">>}
         THEN FilterDocument(CleanedContent(ReturnedText(r).value)[1])["guize"]
         ELSE EmptyObj

\* C27: every key under "规则" in a result of resolve is a key of the
\* RuleSet fetched for the request, with the same definition.
C27_FilteredSubset ==
    rq_pc = "DONE" =>
        \A k \in DOMAIN RulesOf(rq_result) :
            /\ k \in DOMAIN rq_rules.obj
            /\ RulesOf(rq_result)[k] = rq_rules.obj[k]

(***************************************************************************)
(* reconcile: check_address (kit_address_check.py).                        *)
(*   UnchangedText  "待更改地址与原地址相同，无需更改"                          *)
(*   ChangedText    "地址更新，将尝试拦截订单，并转人工客服处理"                 *)
(***************************************************************************)
MaxAddrLen == 3

AddrAtoms == {"M", "m", "SP", "TAB"}

AddrStrings(n) == UNION { [1..k -> AddrAtoms] : k \in 0..n }

InputAddresses == { <<>>, <<"1">>, <<"1", "m">>, <<"m", "1">>, <<"1", "TAB", "m">>, <<"M", "SP">> }

UnchangedText == "dai genggai dizhi yu yuan dizhi xiangtong, wuxu genggai"

ChangedText == "dizhi gengxin, jiang changshi lanjie dingdan, bing zhuan rengong kefu chuli"

\* str.lower(), one character
Lower(c) == IF c = "M" THEN "m" ELSE c

\* addr.replace(" ", "").lower()
addr_clean(addr) ==
    LET kept == SelectSeq(addr, LAMBDA c : c # "SP")
    IN  [i \in 1..Len(kept) |-> Lower(kept[i])]

\* mutant of IsSubstring: the empty string is contained in no string
IsNonEmptySubstring(x, y) ==
    /\ x # <<>>
    /\ \E i \in 0..(Len(y) - Len(x)) : SubSeq(y, i + 1, i + Len(x)) = x

\* x in y, for two strings
IsSubstring(x, y) ==
    \E i \in 0..(Len(y) - Len(x)) : SubSeq(y, i + 1, i + Len(x)) = x

\* mutant of _addresses_are_similar: containment tested in one direction
SimilarOneWay(addr1, addr2) ==
    \/ addr_clean(addr1) = addr_clean(addr2)
    \/ IsSubstring(addr_clean(addr1), addr_clean(addr2))

_addresses_are_similar(addr1, addr2) ==
    \/ addr_clean(addr1) = addr_clean(addr2)
    \/ IsSubstring(addr_clean(addr1), addr_clean(addr2))
    \/ IsSubstring(addr_clean(addr2), addr_clean(addr1))

possible_fields == <<"address", "shipping_address", "delivery_address", "addr", "location">>

\* json.dumps(data, ensure_ascii=False) of a dict with at most one key, as
\* text: {"key": "value"}
DumpText(data) ==
    IF data = EmptyObj THEN <<"{", "}">>
    ELSE LET k == CHOOSE k \in DOMAIN data : TRUE
         IN  <<"{", "QUOTE", k, "QUOTE", ":", "SP", "QUOTE">> \o data[k] \o <<"QUOTE", "}">>

\* mutant of _extract_address_from_data: the last field present wins
ExtractLastField(data) ==
    LET found == SelectSeq(possible_fields, LAMBDA f : f \in DOMAIN data)
    IN  IF found # <<>> THEN data[found[Len(found)]] ELSE DumpText(data)

_extract_address_from_data(data) ==
    LET found == SelectSeq(possible_fields, LAMBDA f : f \in DOMAIN data)
    IN  IF found # <<>> THEN data[found[1]] ELSE DumpText(data)

Sentence(text) == ("<str>" :> text)

\* original_address once the fallback branch has run: assigned for a dict
\* only
ExtractedAddress(body) ==
    IF body.json THEN _extract_address_from_data(body.obj) ELSE Unset

\* mutant of FallbackComparison: a body that is text is compared as well
FallbackComparisonText(body, addr) ==
    IF _addresses_are_similar(IF body.json THEN _extract_address_from_data(body.obj)
                              ELSE body.text, addr)
    THEN Sentence(UnchangedText)
    ELSE Sentence(ChangedText)

\* the branch "if not response_content" of compare_addresses_with_llm
FallbackComparison(body, addr) ==
    IF body.json
    THEN IF _addresses_are_similar(_extract_address_from_data(body.obj), addr)
         THEN Sentence(UnchangedText)
         ELSE Sentence(ChangedText)
    ELSE Sentence(ChangedText)

\* texts of the text-understanding service: "J_same" and "J_changed" are the
\* two sentences as JSON strings, "J_other" another JSON string, "J_obj" a
\* JSON object, "X" text that is no JSON
AddressTexts ==
    { <<>>, <<"J_same">>, <<"J_changed">>, <<"FENCE_JSON", "J_same", "FENCE">>,
      <<"WS", "J_changed", "WS">>, <<"J_other">>, <<"J_obj">>, <<"X">> }

AddressJsonAtoms == {"J_same", "J_changed", "J_other", "J_obj"}

AddressJsonLoads(t) == Len(t) = 1 /\ t[1] \in AddressJsonAtoms

AddressJsonDocument(a) ==
    CASE a = "J_same" -> Sentence(UnchangedText)
      [] a = "J_changed" -> Sentence(ChangedText)
      [] a = "J_other" -> Sentence("the two addresses are the same")
      [] a = "J_obj" -> ("same" :> "yes")

CannotVerifyText == "wufa huoqu yuan dizhi xinxi, qing jiancha dingdan ID"

\* the result of the branch "if not address_response[success]"
LookupErrorResult(resp) ==
    ("success" :> FALSE) @@ ("error" :> <<"Failed to get original address: HTTP", resp.status_code>>)
    @@ ("result" :> CannotVerifyText) @@ ("api_response" :> resp)

\* the "except Exception" of check_address
CheckAddressError(exc) ==
    ("success" :> FALSE) @@ ("error" :> exc)
    @@ ("result" :> "dizhi jiancha guocheng zhong fasheng cuowu, qing shaohou chongshi")

\* mutant of AddressFetched: every status below 300 counts as fetched
AddressFetchedBelow300(resp) == resp.status_code < 300

\* address_response["success"]
AddressFetched(resp) == resp.success

InitReconcile ==
    /\ input_address \in InputAddresses
    /\ ac_pc = "GET_ADDRESS"
    /\ ac_calls = <<"address">>
    /\ ac_llm = "not_called"
    /\ ac_path = "none"
    /\ ac_result = EmptyObj
    /\ original_address = Unset
    /\ lk_name = "get_original_address"
    /\ lk_attempt = 0
    /\ lk_pc = "running"
    /\ lk_ret = NoReturn
    /\ lk_exc = "none"
    /\ lk_log = <<>>
    /\ input_query = <<>>
    /\ order_ids = <<>>
    /\ purposes = <<>>
    /\ fb_pc = "idle"
    /\ fb_result = NoOrderIdResult
    /\ fb_prev = NoOrderIdResult
    /\ fb_process = 1
    /\ reqs = <<>>
    /\ ExtractIdle
    /\ ResolveIdle

\* check_address, Step 1: get_original_address has ended
CheckAddressResponse ==
    /\ ac_pc = "GET_ADDRESS"
    /\ lk_pc \in {"returned", "raised"}
    /\ IF lk_pc = "raised"
       THEN /\ ac_pc' = "done"
            /\ ac_path' = "exception"
            /\ ac_result' = CheckAddressError(lk_exc)
       ELSE IF ~AddressFetched(lk_ret)
            THEN /\ ac_pc' = "done"
                 /\ ac_path' = "lookup_error"
                 /\ ac_result' = LookupErrorResult(lk_ret)
            ELSE /\ ac_pc' = "COMPARE"
                 /\ UNCHANGED <<ac_path, ac_result>>
    /\ UNCHANGED <<reqs, input_address, ac_calls, ac_llm, original_address,
                   fbVars, lkVars, dpVars, rqVars>>

\* Step 2, SILICONFLOW_API_KEY unset: call_siliconflow_deepseek raises
\* ValueError, which the "except Exception" of check_address catches
CompareKeyMissing ==
    /\ ac_pc = "COMPARE"
    /\ ac_calls' = Append(ac_calls, "llm")
    /\ ac_llm' = "no_api_key"
    /\ ac_path' = "exception"
    /\ ac_result' = CheckAddressError("ValueError")
    /\ ac_pc' = "done"
    /\ UNCHANGED <<reqs, input_address, original_address, fbVars, lkVars, dpVars, rqVars>>

\* Step 2, call_siliconflow_deepseek returns None: the fallback comparison
CompareCallFails ==
    /\ ac_pc = "COMPARE"
    /\ ac_calls' = ac_calls \o <<"llm", "fallback">>
    /\ ac_llm' \in {"request_failed", "no_completion"}
    /\ ac_path' = "fallback"
    /\ ac_result' = FallbackComparison(lk_ret.body, input_address)
    /\ original_address' = ExtractedAddress(lk_ret.body)
    /\ ac_pc' = "done"
    /\ UNCHANGED <<reqs, input_address, fbVars, lkVars, dpVars, rqVars>>

\* Step 2, the service answers with a text: an empty text takes the
\* fallback, a JSON document is returned as json.loads decodes it, any other
\* text raises JSONDecodeError, caught by check_address
CompareResponds ==
    /\ ac_pc = "COMPARE"
    /\ ac_llm' = "content"
    /\ \E t \in AddressTexts :
          /\ response_content' = t
          /\ IF t = <<>>
             THEN /\ ac_calls' = ac_calls \o <<"llm", "fallback">>
                  /\ ac_path' = "fallback"
                  /\ ac_result' = FallbackComparison(lk_ret.body, input_address)
                  /\ original_address' = ExtractedAddress(lk_ret.body)
             ELSE IF AddressJsonLoads(CleanedContent(t))
                  THEN /\ ac_calls' = Append(ac_calls, "llm")
                       /\ ac_path' = "model"
                       /\ ac_result' = AddressJsonDocument(CleanedContent(t)[1])
                       /\ UNCHANGED original_address
                  ELSE /\ ac_calls' = Append(ac_calls, "llm")
                       /\ ac_path' = "exception"
                       /\ ac_result' = CheckAddressError("JSONDecodeError")
                       /\ UNCHANGED original_address
    /\ ac_pc' = "done"
    /\ UNCHANGED <<reqs, input_address, fbVars, lkVars, rqVars,
                   dp_pc, categories, llm_outcome, dp_exc, dp_path, dp_result, dp_log>>

NextReconcile ==
    \/ (Attempt /\ UNCHANGED <<reqs, fbVars, dpVars, rqVars, acVars>>)
    \/ CheckAddressResponse
    \/ CompareKeyMissing
    \/ CompareCallFails
    \/ CompareResponds

SpecReconcile == InitReconcile /\ [][NextReconcile]_vars

(***************************************************************************)
(* The fallback comparison on its own: check_address after the lookup has  *)
(* returned 200 with the body {"address": a}.                              *)
(***************************************************************************)
AddressOnFile(a) ==
    [kind |-> "response", status_code |-> 200, json |-> TRUE,
     obj |-> ("address" :> a), text |-> <<>>]

InitCompare ==
    /\ input_address \in AddrStrings(MaxAddrLen)
    /\ ac_pc = "COMPARE"
    /\ ac_calls = <<"address">>
    /\ ac_llm = "not_called"
    /\ ac_path = "none"
    /\ ac_result = EmptyObj
    /\ original_address = Unset
    /\ lk_name = "get_original_address"
    /\ lk_attempt = 0
    /\ lk_pc = "returned"
    /\ lk_exc = "none"
    /\ \E a \in AddrStrings(MaxAddrLen) :
          /\ lk_log = <<AddressOnFile(a)>>
          /\ lk_ret = Returned("get_original_address", AddressOnFile(a))
    /\ input_query = <<>>
    /\ order_ids = <<>>
    /\ purposes = <<>>
    /\ fb_pc = "idle"
    /\ fb_result = NoOrderIdResult
    /\ fb_prev = NoOrderIdResult
    /\ fb_process = 1
    /\ reqs = <<>>
    /\ ExtractIdle
    /\ ResolveIdle

NextCompare == CompareCallFails

SpecCompare == InitCompare /\ [][NextCompare]_vars

(***************************************************************************)
(* Claims about reconcile (SpecReconcile, SpecCompare).                    *)
(***************************************************************************)
IsErrorOutcome(r) ==
    /\ {"success", "error", "result"} \subseteq DOMAIN r
    /\ r["success"] = FALSE

TwoSentences == {Sentence(UnchangedText), Sentence(ChangedText)}

\* C17: when the address-on-file lookup returns a status other than 200,
\* check_address returns the error outcome with the message that the order
\* could not be verified, and neither the text-understanding service nor the
\* fallback comparison is invoked.
C17_AddressLookupNot200 ==
    (lk_name = "get_original_address" /\ lk_pc = "returned" /\ lk_ret.status_code # 200) =>
        /\ ac_calls = <<"address">>
        /\ ac_llm = "not_called"
        /\ ac_pc \in {"GET_ADDRESS", "done"}
        /\ ac_pc = "done" =>
              /\ ac_path = "lookup_error"
              /\ IsErrorOutcome(ac_result)
              /\ ac_result["result"] = CannotVerifyText

C17_Witness ==
    /\ ac_pc = "done"
    /\ lk_pc = "returned"
    /\ lk_ret.status_code = 404
    /\ ac_path = "lookup_error"
    /\ ac_result["result"] = CannotVerifyText

\* C18: when the address-on-file lookup returned 200, check_address returns
\* one of the two fixed sentences or the error outcome, on the model path and
\* on the fallback path; no other value of the service is returned.
C18_TwoSentencesOrError ==
    (ac_pc = "done" /\ lk_pc = "returned" /\ lk_ret.status_code = 200) =>
        \/ IsErrorOutcome(ac_result)
        \/ ac_result \in TwoSentences

\* the service answered with a text that json.loads cannot decode
ResponseUnparsable ==
    /\ ac_llm = "content"
    /\ response_content # <<>>
    /\ ~AddressJsonLoads(CleanedContent(response_content))

\* C19: a response of the text-understanding service that cannot be parsed
\* is not surfaced: the fallback comparison runs and check_address returns
\* the unchanged or the changed sentence it computes, no error outcome.
C19_ParseFailureFallsBack ==
    (ac_pc = "done" /\ ResponseUnparsable) =>
        /\ ac_path = "fallback"
        /\ ~IsErrorOutcome(ac_result)
        /\ ac_result \in TwoSentences
        /\ ac_result = FallbackComparison(lk_ret.body, input_address)

\* a string without the characters of ws, in lower case
RECURSIVE Normalized(_, _)
Normalized(str, ws) ==
    IF str = <<>> THEN <<>>
    ELSE (IF Head(str) \in ws THEN <<>>
          ELSE IF Head(str) = "M" THEN <<"m">> ELSE <<Head(str)>>)
         \o Normalized(Tail(str), ws)

EqualOrContains(x, y) ==
    \/ x = y
    \/ \E i \in 1..(Len(y) + 1), j \in 0..Len(y) : SubSeq(y, i, j) = x
    \/ \E i \in 1..(Len(x) + 1), j \in 0..Len(x) : SubSeq(x, i, j) = y

\* the verdict of the fallback comparison when the characters of ws are the
\* ones removed before comparing
VerdictRule(ws) ==
    (ac_pc = "done" /\ ac_path = "fallback") =>
        LET a == lk_ret.body.obj["address"]
            b == input_address
            same == EqualOrContains(Normalized(a, ws), Normalized(b, ws))
        IN  /\ ac_result \in TwoSentences
            /\ (ac_result = Sentence(UnchangedText)) <=> same
            /\ (ac_result = Sentence(ChangedText)) <=> ~same
            /\ FallbackComparison(JsonBody(("address" :> b)), a) = ac_result
            /\ (a = <<"M", "SP", "M">> /\ b = <<"m", "SP", "m">>) =>
                  ac_result = Sentence(UnchangedText)

\* C20 as stated: the fallback verdict is unchanged exactly when, with
\* whitespace (spaces and tabs alike) removed and both strings in lower case,
\* the two addresses are equal or one contains the other, changed otherwise;
\* swapping the addresses gives the same verdict; {"address": "M M"} against
\* "m m" is unchanged.
C20_FallbackComparison == VerdictRule({"SP", "TAB"})

\* C20 amended: the same, with only the space character removed; a tab or
\* any other whitespace stays in the strings compared.
C20_FallbackComparisonSpaces == VerdictRule({"SP"})

C20_Witness ==
    /\ ac_pc = "done"
    /\ ac_path = "fallback"
    /\ lk_ret.body.obj = ("address" :> <<"M", "SP", "M">>)
    /\ input_address = <<"m", "SP", "m">>
    /\ ac_result = Sentence(UnchangedText)

\* the fallback comparison has run on a payload that is a key-value object
FallbackOnObject ==
    ac_pc = "done" /\ ac_path = "fallback" /\ lk_ret.body.json

\* C26: the candidate address of the fallback comparison is the value of the
\* first field of the payload in the order address, shipping_address,
\* delivery_address, addr, location; an earlier field wins over a later one;
\* when none of the five is present it is the serialization of the payload.
C26_FirstFieldWins ==
    FallbackOnObject =>
        LET data == lk_ret.body.obj
            Five == {"address", "shipping_address", "delivery_address", "addr", "location"}
            Before(f) ==
                CASE f = "address" -> {}
                  [] f = "shipping_address" -> {"address"}
                  [] f = "delivery_address" -> {"address", "shipping_address"}
                  [] f = "addr" -> {"address", "shipping_address", "delivery_address"}
                  [] f = "location" -> Five \ {"location"}
        IN  /\ \A f \in Five \cap DOMAIN data :
                  (Before(f) \cap DOMAIN data = {}) => original_address = data[f]
            /\ data = EmptyObj => original_address = <<"{", "}">>
            /\ DOMAIN data = {"id"} =>
                  original_address =
                      <<"{", "QUOTE", "id", "QUOTE", ":", "SP", "QUOTE", "1", "QUOTE", "}">>

C26_Witness ==
    /\ FallbackOnObject
    /\ DOMAIN lk_ret.body.obj = {"shipping_address", "addr", "location", "id"}
    /\ original_address = <<"M">>

C26_WitnessSerialized ==
    /\ FallbackOnObject
    /\ DOMAIN lk_ret.body.obj = {"id"}
    /\ Len(original_address) = 10

\* C29: when the text-understanding service gives no text and the payload
\* of the address lookup is not a key-value object, check_address returns the
\* changed sentence and nothing is extracted or compared, also when the
\* payload text is the new address itself.
C29_TextPayloadAlwaysChanged ==
    (ac_pc = "done" /\ lk_pc = "returned" /\ lk_ret.status_code = 200
       /\ ~lk_ret.body.json /\ ac_llm \in {"request_failed", "no_completion"}) =>
        /\ ac_path = "fallback"
        /\ ac_result = Sentence(ChangedText)
        /\ original_address = Unset

C29_Witness ==
    /\ ac_pc = "done"
    /\ ac_llm = "request_failed"
    /\ ~lk_ret.body.json
    /\ lk_ret.body.text = input_address
    /\ input_address = <<"1", "m">>
    /\ ac_result = Sentence(ChangedText)

OnlySpaces(addr) == \A i \in 1..Len(addr) : addr[i] = "SP"

\* C30: under the fallback comparison a new address that is empty or only
\* spaces is unchanged against every address on file, and an empty address
\* on file is unchanged against every new address.
C30_EmptyIsUnchanged ==
    (FallbackOnObject /\ DOMAIN lk_ret.body.obj = {"address"}
       /\ (OnlySpaces(input_address) \/ lk_ret.body.obj["address"] = <<>>)) =>
        ac_result = Sentence(UnchangedText)

C30_Witness ==
    /\ FallbackOnObject
    /\ input_address = <<"SP", "SP">>
    /\ lk_ret.body.obj = ("address" :> <<"M", "TAB", "M">>)
    /\ ac_result = Sentence(UnchangedText)

C30_WitnessOnFile ==
    /\ FallbackOnObject
    /\ input_address = <<"M", "TAB">>
    /\ lk_ret.body.obj = ("address" :> <<>>)
    /\ ac_result = Sentence(UnchangedText)

(***************************************************************************)
(* A lookup called on its own.                                             *)
(***************************************************************************)
InitLookup ==
    /\ lk_name \in Lookups
    /\ lk_attempt = 0
    /\ lk_pc = "running"
    /\ lk_ret = NoReturn
    /\ lk_exc = "none"
    /\ lk_log = <<>>
    /\ input_query = <<>>
    /\ order_ids = <<>>
    /\ purposes = <<>>
    /\ fb_pc = "idle"
    /\ fb_result = NoOrderIdResult
    /\ fb_prev = NoOrderIdResult
    /\ fb_process = 1
    /\ reqs = <<>>
    /\ ReconcileIdle
    /\ ExtractIdle
    /\ ResolveIdle

NextLookup == Attempt /\ UNCHANGED <<reqs, fbVars, dpVars, acVars, rqVars>>

SpecLookup == InitLookup /\ [][NextLookup]_vars

\* C4: a lookup makes at most max_retries attempts; a transport failure on
\* attempt 1 or 2 is followed by another attempt; the lookup raises only after
\* the third transport failure in a row; a response on attempt k is returned
\* after exactly k attempts.
C4_RetryBudget ==
    /\ Len(lk_log) <= max_retries
    /\ \A i \in 1..Len(lk_log) :
          (lk_log[i].kind = "failure" /\ i < max_retries) =>
              (lk_pc = "running" \/ i < Len(lk_log))
    /\ lk_pc = "raised" =>
          /\ Len(lk_log) = max_retries
          /\ \A i \in 1..Len(lk_log) : lk_log[i].kind = "failure"
    /\ lk_pc = "returned" =>
          /\ lk_log[Len(lk_log)].kind = "response"
          /\ \A i \in 1..(Len(lk_log) - 1) : lk_log[i].kind = "failure"

InitFallback ==
    /\ input_query \in Queries
    /\ order_ids = <<>>
    /\ purposes = <<>>
    /\ fb_pc = "start"
    /\ fb_result = NoOrderIdResult
    /\ fb_prev = NoOrderIdResult
    /\ fb_process = 1
    /\ reqs = <<>>
    /\ ReconcileIdle
    /\ LookupIdle
    /\ ExtractIdle
    /\ ResolveIdle

simulate_llm_response ==
    /\ fb_pc = "start"
    /\ \E ids \in ListOfSet(OrderIdSet(input_query)) :
          /\ order_ids' = ids
          /\ purposes' = IF ids = <<>> THEN <<>> ELSE PurposesOf(input_query)
          /\ fb_result' = FallbackResult(input_query, ids)
    /\ fb_pc' = "done"
    /\ UNCHANGED <<reqs, input_query, fb_prev, fb_process, lkVars, dpVars, acVars, rqVars>>

NextFallback == simulate_llm_response

SpecFallback == InitFallback /\ [][NextFallback]_vars

(***************************************************************************)
(* The fallback called twice with the same query.  The server is a process *)
(* started by mcp.run(); str hashes are salted per process, so the order   *)
(* in which list(set(order_ids)) lists the ids is fixed inside one process *)
(* and open again after a restart.                                         *)
(***************************************************************************)
RestartServer ==
    /\ fb_pc = "done"
    /\ fb_process = 1
    /\ fb_process' = 2
    /\ UNCHANGED <<reqs, input_query, order_ids, purposes, fb_pc, fb_result, fb_prev,
                   lkVars, dpVars, acVars, rqVars>>

SecondCall ==
    /\ fb_pc = "done"
    /\ \E ids \in ListOfSet(OrderIdSet(input_query)) :
          /\ fb_process = 1 => ids = order_ids
          /\ order_ids' = ids
          /\ fb_result' = FallbackResult(input_query, ids)
    /\ fb_prev' = fb_result
    /\ fb_pc' = "again"
    /\ UNCHANGED <<reqs, input_query, purposes, fb_process, lkVars, dpVars, acVars, rqVars>>

NextFallbackTwice ==
    \/ simulate_llm_response
    \/ RestartServer
    \/ SecondCall

SpecFallbackTwice == InitFallback /\ [][NextFallbackTwice]_vars

\* C11: two calls of the fallback with the same query return the same
\* result, the order id of every task slot included.
C11_FallbackPure ==
    fb_pc = "again" => fb_result = fb_prev

(***************************************************************************)
(* Claims about the deterministic fallback (SpecFallback).                 *)
(***************************************************************************)
NoPatternMatches(q) == \A n \in 1..Len(order_patterns) : FindAll(order_patterns[n], q, 1) = <<>>

HasKeyword(q) == ContainsAny(q, QueryWords \cup CancelWords \cup ModifyWords)

SlotKeys(r) == { d \in DOMAIN r : d[1] = "task" }

\* C6: when no order-id pattern matches the query the fallback returns exactly
\* {valid_question: no}, whatever keywords the query holds; when a pattern
\* matches, valid_question is yes.
C6_OrderIdGate ==
    fb_pc = "done" =>
        /\ NoPatternMatches(input_query) =>
              /\ DOMAIN fb_result = {Key("valid_question")}
              /\ fb_result[Key("valid_question")] = "no"
        /\ ~NoPatternMatches(input_query) => fb_result[Key("valid_question")] = "yes"

C6_Witness ==
    /\ fb_pc = "done"
    /\ NoPatternMatches(input_query)
    /\ HasKeyword(input_query)
    /\ ContainsAny(input_query, {"K"})

\* C7: in a multi-task result with m order ids, p purposes and k slots, slot i
\* carries order id i when i <= m and order id m when i > m, purpose i when
\* i <= p and purpose p when i > p; a slot beyond the list never takes the
\* first element again (unless the list has one element).
C7_SaturatingIndex ==
    (fb_pc = "done" /\ Key("task_count") \in DOMAIN fb_result
                    /\ fb_result[Key("task_count")] > 1) =>
        LET m == Len(order_ids)
            p == Len(purposes)
        IN  \A i \in 1..fb_result[Key("task_count")] :
               /\ Slot(i) \in DOMAIN fb_result
               /\ fb_result[Slot(i)][<<"order_id", i>>] = order_ids[IF i <= m THEN i ELSE m]
               /\ fb_result[Slot(i)][<<"purpose", i>>] = purposes[IF i <= p THEN i ELSE p]
               /\ (i > m /\ m > 1) => fb_result[Slot(i)][<<"order_id", i>>] # order_ids[1]
               /\ (i > p /\ p > 1) => fb_result[Slot(i)][<<"purpose", i>>] # purposes[1]

C7_Witness ==
    /\ fb_pc = "done"
    /\ Len(order_ids) = 2
    /\ Len(purposes) = 3
    /\ Slot(3) \in DOMAIN fb_result
    /\ fb_result[Slot(3)][<<"order_id", 3>>] = order_ids[2]

\* C8: whenever the fallback finds an order id, task_count is the larger of
\* the number of distinct order ids and the number of purposes, and is >= 1.
C8_TaskCountIsMax ==
    (fb_pc = "done" /\ ~NoPatternMatches(input_query)) =>
        LET m == Cardinality(OrderIdSet(input_query))
            p == Len(PurposesOf(input_query))
        IN  /\ Key("task_count") \in DOMAIN fb_result
            /\ fb_result[Key("task_count")] = (IF m >= p THEN m ELSE p)
            /\ fb_result[Key("task_count")] >= 1

C8_Witness ==
    /\ fb_pc = "done"
    /\ Cardinality(OrderIdSet(input_query)) = 1
    /\ Len(PurposesOf(input_query)) = 3
    /\ fb_result[Key("task_count")] = 3

\* C9: a valid fallback result holds the field tasks and no numbered slot
\* exactly when task_count = 1, holds exactly the slots task_1..task_n with
\* n = task_count and no field tasks exactly when task_count > 1, and its
\* multi-task flag is yes iff task_count > 1.
C9_FallbackShape ==
    (fb_pc = "done" /\ fb_result[Key("valid_question")] = "yes") =>
        /\ {Key("multi-task"), Key("task_count")} \subseteq DOMAIN fb_result
        /\ LET k == fb_result[Key("task_count")]
               D == DOMAIN fb_result
           IN  /\ k >= 1
               /\ (k = 1) <=> (Key("tasks") \in D /\ SlotKeys(fb_result) = {})
               /\ (k > 1) <=> (Key("tasks") \notin D
                               /\ SlotKeys(fb_result) = { Slot(i) : i \in 1..k })
               /\ (fb_result[Key("multi-task")] = "yes") <=> (k > 1)
               /\ fb_result[Key("multi-task")] \in {"yes", "no"}
               /\ D \ SlotKeys(fb_result) \subseteq
                     {Key("valid_question"), Key("multi-task"), Key("task_count"), Key("tasks")}

C9_Witness ==
    /\ fb_pc = "done"
    /\ fb_result[Key("valid_question")] = "yes"
    /\ fb_result[Key("task_count")] = 3
    /\ SlotKeys(fb_result) = {Slot(1), Slot(2), Slot(3)}

PurposeRank(x) ==
    CASE x = "query order status" -> 1
      [] x = "cancel order" -> 2
      [] x = "modify order" -> 3

CountOf(list, x) == Cardinality({ i \in 1..Len(list) : list[i] = x })

\* C12: the purpose list holds one entry for each keyword family that has a
\* keyword in the query, in the order query-status, cancel, modify, never
\* more than one entry per family (at most 3 entries); with no keyword it is
\* the single default purpose "query order status", and a query with one
\* order id and no keyword gives a single task with that purpose.
C12_PurposeDerivation ==
    (fb_pc = "done" /\ order_ids # <<>>) =>
        LET q == input_query
        IN  /\ Len(purposes) <= 3
            /\ \A i \in 1..Len(purposes) :
                  purposes[i] \in {"query order status", "cancel order", "modify order"}
            /\ \A i, j \in 1..Len(purposes) :
                  i < j => PurposeRank(purposes[i]) < PurposeRank(purposes[j])
            /\ HasKeyword(q) =>
                  /\ CountOf(purposes, "query order status")
                        = (IF ContainsAny(q, QueryWords) THEN 1 ELSE 0)
                  /\ CountOf(purposes, "cancel order")
                        = (IF ContainsAny(q, CancelWords) THEN 1 ELSE 0)
                  /\ CountOf(purposes, "modify order")
                        = (IF ContainsAny(q, ModifyWords) THEN 1 ELSE 0)
            /\ ~HasKeyword(q) => purposes = <<"query order status">>
            /\ (~HasKeyword(q) /\ Len(order_ids) = 1) =>
                  /\ fb_result[Key("task_count")] = 1
                  /\ fb_result[Key("tasks")][<<"purpose", 1>>] = "query order status"

C12_Witness ==
    /\ fb_pc = "done"
    /\ order_ids # <<>>
    /\ ContainsAny(input_query, {"chaxun"})
    /\ ContainsAny(input_query, {"zhuangtai"})
    /\ ContainsAny(input_query, CancelWords)
    /\ purposes = <<"query order status", "cancel order">>

(***************************************************************************)
(* Requests served concurrently.  Each request is one call of              *)
(* data_preprocess ("extract"), rule_query_workflow ("resolve") or         *)
(* check_address ("reconcile"); its parameters and local variables live in *)
(* its own frame, reqs[i].  A step of a request is the code from one       *)
(* external call to the next; the scheduler picks the request that steps.  *)
(***************************************************************************)
RequestKinds == {"extract", "resolve", "reconcile"}

\* the parameter of a request: the query, the order id, the new address
InputsOf(kind) ==
    CASE kind = "extract"   -> { <<"chaxun">>, <<"OD", "b", "quxiao">> }
      [] kind = "resolve"   -> { <<"K", "a">> }
      [] kind = "reconcile" -> { <<"1", "m">>, <<"M", "SP">> }

\* the frame of a call that has not yet run a statement
NewRequest(kind, input) ==
    [kind |-> kind, input |-> input,
     pc |-> CASE kind = "extract" -> "get_categories"
              [] kind = "resolve" -> "CHECK_ORDER"
              [] kind = "reconcile" -> "GET_ADDRESS",
     seen |-> <<>>,
     categories |-> "unset",
     order_status |-> NoReturn,
     matched_rules |-> EmptyObj,
     address_response |-> NoReturn,
     result |-> EmptyObj]

\* a response of the text-understanding service with the text t
Completion(t) ==
    [kind |-> "response", status_code |-> 200, json |-> FALSE, obj |-> EmptyObj, text |-> t]

\* what the external call made at pc can give
ExternalOutcomes(pc) ==
    CASE pc = "get_categories" -> { o \in CategoryOutcomes : o.status_code \in {0, 200} }
      [] pc = "extract" -> {TransportFailure, Completion(<<"J_multi">>), Completion(<<"X">>)}
      [] pc = "CHECK_ORDER" ->
            { o \in Outcomes("get_order_status") :
                 /\ o.status_code \in {0, 200, 404}
                 /\ o.json => o.obj \in {("status" :> "pending"), ("status" :> "shipped")} }
      [] pc = "FETCH_RULES" ->
            { o \in Outcomes("get_matched_rule") :
                 /\ o.status_code \in {0, 200}
                 /\ o.json => DOMAIN o.obj \in {{}, {"cancel_rule"}, RuleKeys} }
      [] pc = "GET_ADDRESS" ->
            { o \in Outcomes("get_original_address") :
                 /\ o.status_code \in {0, 200, 404}
                 /\ o.json => DOMAIN o.obj \in {{"address"}, {"location", "id"}} }
      [] pc = "COMPARE" -> {TransportFailure, Completion(<<"J_same">>), Completion(<<"X">>)}
      [] OTHER -> {}

\* mutant of Frame: the locals are module-level variables, so every request
\* reads what the first one holds
SharedFrame(rs, i) == rs[1]

\* the local variables request i reads
Frame(rs, i) == rs[i]

\* the order ids of a query that holds at most one
OrderIdsOf(q) == CHOOSE ids \in ListOfSet(OrderIdSet(q)) : TRUE

\* data_preprocess from one external call to the next
ExtractStep(r, loc, o) ==
    IF r.pc = "get_categories"
    THEN IF CategoriesMissing(CategoriesOf(o))
         THEN [r EXCEPT !.categories = CategoriesOf(o), !.pc = "done",
                        !.result = ErrorResult("Failed to fetch categories")]
         ELSE [r EXCEPT !.categories = CategoriesOf(o), !.pc = "extract"]
    ELSE IF o.kind = "failure" \/ o.text = <<>> \/ ~JsonLoads(CleanedContent(o.text))
         THEN [r EXCEPT !.pc = "done", !.result = FallbackResult(r.input, OrderIdsOf(r.input))]
         ELSE [r EXCEPT !.pc = "done", !.result = JsonDocument(CleanedContent(o.text)[1])]

\* rule_query_workflow, Step 3: filter_rules on the rules and the order
\* status fetched before; no external call
FilterStep(r, loc) ==
    [r EXCEPT !.pc = "DONE",
              !.result = ("text" :> filter_rules(loc.matched_rules, loc.order_status))]

\* rule_query_workflow from one external call to the next
ResolveStep(r, loc, o) ==
    IF r.pc = "CHECK_ORDER"
    THEN    IF OrderExists(fetch_order_status(o))
            THEN [r EXCEPT !.order_status = fetch_order_status(o), !.pc = "FETCH_RULES"]
            ELSE [r EXCEPT !.order_status = fetch_order_status(o), !.pc = "REJECTED",
                     !.result = OrderAbsentResult("rule_query_workflow", fetch_order_status(o))]
    ELSE    IF fetch_matched_rules(o) # EmptyObj
            THEN [r EXCEPT !.matched_rules = fetch_matched_rules(o), !.pc = "FILTER"]
            ELSE [r EXCEPT !.pc = "RULE_FAILURE",
                           !.result = ("error" :> "Failed to get matched rules")]

\* check_address from one external call to the next
ReconcileStep(r, loc, o) ==
    IF r.pc = "GET_ADDRESS"
    THEN IF o.kind = "failure"
         THEN [r EXCEPT !.pc = "done",
                        !.result = CheckAddressError(ExceptBranch("get_original_address", 0))]
         ELSE IF ~AddressFetched(Returned("get_original_address", o))
              THEN [r EXCEPT !.address_response = Returned("get_original_address", o),
                             !.pc = "done",
                             !.result = LookupErrorResult(Returned("get_original_address", o))]
              ELSE [r EXCEPT !.address_response = Returned("get_original_address", o),
                             !.pc = "COMPARE"]
    ELSE IF o.kind = "failure" \/ o.text = <<>>
         THEN [r EXCEPT !.pc = "done",
                        !.result = FallbackComparison(loc.address_response.body, r.input)]
         ELSE IF AddressJsonLoads(CleanedContent(o.text))
              THEN [r EXCEPT !.pc = "done",
                             !.result = AddressJsonDocument(CleanedContent(o.text)[1])]
              ELSE [r EXCEPT !.pc = "done", !.result = CheckAddressError("JSONDecodeError")]

\* one step of the request r, reading its locals from loc
Step(r, loc, o) ==
    CASE r.kind = "extract"   -> ExtractStep(r, loc, o)
      [] r.kind = "resolve"   -> ResolveStep(r, loc, o)
      [] r.kind = "reconcile" -> ReconcileStep(r, loc, o)

MaxRequests == 2

NewRequests == UNION { { NewRequest(k, i) : i \in InputsOf(k) } : k \in RequestKinds }

InitConcurrent ==
    /\ reqs \in [1..MaxRequests -> NewRequests]
    /\ input_query = <<>>
    /\ order_ids = <<>>
    /\ purposes = <<>>
    /\ fb_pc = "idle"
    /\ fb_result = NoOrderIdResult
    /\ fb_prev = NoOrderIdResult
    /\ fb_process = 1
    /\ ReconcileIdle
    /\ LookupIdle
    /\ ExtractIdle
    /\ ResolveIdle

\* request i makes its external call, receives o and runs to its next call
ServeCall(i) ==
    /\ \E o \in ExternalOutcomes(reqs[i].pc) :
          reqs' = [reqs EXCEPT ![i] =
                      [Step(reqs[i], Frame(reqs, i), o) EXCEPT !.seen = Append(reqs[i].seen, o)]]
    /\ UNCHANGED <<fbVars, lkVars, dpVars, rqVars, acVars>>

\* request i runs its filter step
ServeFilter(i) ==
    /\ reqs[i].pc = "FILTER"
    /\ reqs' = [reqs EXCEPT ![i] = FilterStep(reqs[i], Frame(reqs, i))]
    /\ UNCHANGED <<fbVars, lkVars, dpVars, rqVars, acVars>>

NextConcurrent ==
    \/ \E i \in DOMAIN reqs : ServeCall(i)
    \/ \E i \in DOMAIN reqs : ServeFilter(i)

SpecConcurrent == InitConcurrent /\ [][NextConcurrent]_vars

\* the frame of a request run alone up to the external responses in seen
RECURSIVE Alone(_, _)
Alone(r, seen) ==
    IF seen = <<>> THEN r
    ELSE LET n == [Step(r, r, Head(seen)) EXCEPT !.seen = Append(r.seen, Head(seen))]
         IN  Alone(n, Tail(seen))

====
